---- MODULE Spec2Model ----
(***************************************************************************)
(* Model of spok's noxfile.py: the three nox sessions build, serve and     *)
(* publish.  Every statement of a session body is one action; a failing    *)
(* session.install / session.run raises and ends the session, as does      *)
(* session.error.  The log records, for the session that is running,       *)
(* every call that left the script: installer calls, external commands     *)
(* and the browser open, each with its arguments and its result.           *)
(***************************************************************************)
EXTENDS Integers, Sequences, FiniteSets, TLC

VARIABLES
    envCI,      \* os.environ["CI"]            (optional string)
    envTOKEN,   \* os.environ["GITHUB_TOKEN"]  (optional string)
    ON_CI,      \* module global, line 12
    loadEnv,    \* history: the environment as it was when the module was loaded
    task,       \* the session being run: "none", "build", "serve", "publish"
    pc,         \* the statement the session is at
    token,      \* publish's local variable, line 53
    log,        \* calls made by the current session, in order
    outcome,    \* "none" while running, then "success", "failed" or "error"
    runs        \* sessions started in this process

vars == <<envCI, envTOKEN, ON_CI, loadEnv, task, pc, token, log, outcome, runs>>

(* ------------------------------ bounds --------------------------------- *)

MaxRuns == 2
MaxTokLen == 1

(* --------------------------- optional strings --------------------------- *)

\* os.getenv returns None for a variable that is not set
Unset == [set |-> FALSE, val |-> ""]

Some(s) == [set |-> TRUE, val |-> s]

RECURSIVE StrsUpTo(_)
StrsUpTo(n) ==
    IF n = 0 THEN {""}
    ELSE StrsUpTo(n - 1) \cup {s \o c : s \in StrsUpTo(n - 1), c \in {"x", "y"}}

CIValues == {Unset, Some(""), Some("true"), Some("0")}

TokenValues == {Unset} \cup {Some(s) : s \in StrsUpTo(MaxTokLen)}

Truthy_NotNone(v) == v.set

\* Python truthiness of an Optional[str]: None and "" are false
Truthy(v) == v.set /\ v.val # ""

TokenMissing_EmptyOnly(tok) == tok.set /\ tok.val = ""

\* line 53: not (token := os.getenv("GITHUB_TOKEN"))
TokenMissing(tok) == ~Truthy(tok)

(* ------------------------------ the calls ------------------------------- *)

DOCS_DEPS_Reordered == <<"mkdocs-material", "mkdocs", "mkdocs-include-markdown-plugin">>

DOCS_DEPS == <<"mkdocs", "mkdocs-material", "mkdocs-include-markdown-plugin">>

InstallCall(args) ==
    [kind |-> "install", args |-> args, external |-> FALSE, res |-> "running"]

RunCall(args, ext) ==
    [kind |-> "run", args |-> args, external |-> ext, res |-> "running"]

UpgradeInstaller == InstallCall(<<"--upgrade", "pip", "setuptools", "wheel">>)

InstallDocsDeps == InstallCall(DOCS_DEPS)

MkdocsBuild_NoClean == RunCall(<<"mkdocs", "build">>, FALSE)

MkdocsBuild == RunCall(<<"mkdocs", "build", "--clean">>, FALSE)

MkdocsServe == RunCall(<<"mkdocs", "serve">>, FALSE)

BrowserOpen ==
    [kind |-> "browser", args |-> <<"http://127.0.0.1:8000/spok/">>,
     external |-> FALSE, res |-> "running"]

RemoteURL(tok) == "https://" \o tok \o "@github.com/FollowTheProcess/spok.git"

GitRemoteAdd_NoToken(tok) ==
    RunCall(<<"git", "remote", "add", "gh-token",
              "https://github.com/FollowTheProcess/spok.git">>, TRUE)

GitRemoteAdd(tok) ==
    RunCall(<<"git", "remote", "add", "gh-token", RemoteURL(tok)>>, TRUE)

GitFetch == RunCall(<<"git", "fetch", "gh-token">>, TRUE)

GitFetchBranch == RunCall(<<"git", "fetch", "gh-token", "gh-pages:gh-pages">>, TRUE)

DeployCI ==
    RunCall(<<"mkdocs", "gh-deploy", "-v", "--clean", "--remote-name", "gh-token">>, FALSE)

DeployLocal_Remote ==
    RunCall(<<"mkdocs", "gh-deploy", "--remote-name", "gh-token">>, FALSE)

DeployLocal == RunCall(<<"mkdocs", "gh-deploy">>, FALSE)

PublishBranch_ReadsEnv ==
    IF Truthy(envCI) THEN "publish_remote_add" ELSE "publish_deploy_local"

\* line 59: if ON_CI
PublishBranch == IF ON_CI THEN "publish_remote_add" ELSE "publish_deploy_local"

Done(c, r) == [c EXCEPT !.res = r]

Invoke_NoAbort(call, nextpc) ==
    \E ok \in BOOLEAN :
        /\ log' = Append(log, Done(call, IF ok THEN "ok" ELSE "fail"))
        /\ pc' = nextpc
        /\ outcome' = IF ~ok THEN "failed"
                      ELSE IF nextpc = "done" /\ outcome = "none" THEN "success"
                      ELSE outcome

\* session.install(...) / session.run(...): the call is made and waited for;
\* a non-zero exit raises, nothing in the session body catches it, and the
\* session ends as failed.  Returning from the last statement ends it as
\* successful.
Invoke(call, nextpc) ==
    \E ok \in BOOLEAN :
        /\ log' = Append(log, Done(call, IF ok THEN "ok" ELSE "fail"))
        /\ IF ok
             THEN /\ pc' = nextpc
                  /\ outcome' = IF nextpc = "done" THEN "success" ELSE outcome
             ELSE /\ pc' = "done"
                  /\ outcome' = "failed"

(* ------------------------------- Init ----------------------------------- *)

\* The module has been imported: ON_CI = bool(os.getenv("CI")), line 12.
Init ==
    /\ envCI \in CIValues
    /\ envTOKEN \in TokenValues
    /\ ON_CI = Truthy(envCI)
    /\ loadEnv = [CI |-> envCI, TOKEN |-> envTOKEN]
    /\ task = "none"
    /\ pc = "idle"
    /\ token = Unset
    /\ log = <<>>
    /\ outcome = "none"
    /\ runs = 0

(* --------------------------- the environment ---------------------------- *)

\* The process environment changes while no session body is executing (the
\* tools a session calls are child processes and cannot change it).
SetEnv ==
    /\ pc = "idle"
    /\ \E c \in CIValues, t \in TokenValues :
        /\ <<c, t>> # <<envCI, envTOKEN>>
        /\ envCI' = c
        /\ envTOKEN' = t
    /\ UNCHANGED <<ON_CI, loadEnv, task, pc, token, log, outcome, runs>>

\* nox starts one of the sessions
Start ==
    /\ pc = "idle"
    /\ runs < MaxRuns
    /\ \E t \in {"build", "serve", "publish"} :
        /\ task' = t
        /\ pc' = CASE t = "build" -> "build_upgrade"
                   [] t = "serve" -> "serve_upgrade"
                   [] t = "publish" -> "publish_check"
    /\ runs' = runs + 1
    /\ UNCHANGED <<envCI, envTOKEN, ON_CI, loadEnv, token, log, outcome>>

Frame == UNCHANGED <<envCI, envTOKEN, ON_CI, loadEnv, task, token, runs>>

(* -------------------------------- build --------------------------------- *)

build_upgrade ==
    /\ pc = "build_upgrade"
    /\ Invoke(UpgradeInstaller, "build_deps")
    /\ Frame

build_deps ==
    /\ pc = "build_deps"
    /\ Invoke(InstallDocsDeps, "build_run")
    /\ Frame

build_run ==
    /\ pc = "build_run"
    /\ Invoke(MkdocsBuild, "done")
    /\ Frame

(* -------------------------------- serve --------------------------------- *)

serve_upgrade ==
    /\ pc = "serve_upgrade"
    /\ Invoke(UpgradeInstaller, "serve_deps")
    /\ Frame

serve_deps_SkipOpen ==
    /\ pc = "serve_deps"
    /\ Invoke(InstallDocsDeps, "serve_run")
    /\ Frame

serve_deps ==
    /\ pc = "serve_deps"
    /\ Invoke(InstallDocsDeps, "serve_open")
    /\ Frame

\* webbrowser.open returns False when no browser could be launched; the
\* return value is dropped and the session goes on either way.
serve_open ==
    /\ pc = "serve_open"
    /\ \E opened \in BOOLEAN :
        log' = Append(log, Done(BrowserOpen, IF opened THEN "ok" ELSE "fail"))
    /\ pc' = "serve_run"
    /\ UNCHANGED outcome
    /\ Frame

\* mkdocs serve is started and the session blocks in it
serve_run ==
    /\ pc = "serve_run"
    /\ log' = Append(log, MkdocsServe)
    /\ pc' = "serve_blocked"
    /\ UNCHANGED outcome
    /\ Frame

\* the server is stopped from outside and the command returns
serve_return ==
    /\ pc = "serve_blocked"
    /\ \E ok \in BOOLEAN :
        /\ log' = [log EXCEPT ![Len(log)] = Done(@, IF ok THEN "ok" ELSE "fail")]
        /\ outcome' = IF ok THEN "success" ELSE "failed"
    /\ pc' = "done"
    /\ Frame

(* ------------------------------- publish -------------------------------- *)

publish_check ==
    /\ pc = "publish_check"
    /\ token' = envTOKEN
    /\ IF TokenMissing(token')
         THEN /\ pc' = "done"
              /\ outcome' = "error"
         ELSE /\ pc' = "publish_upgrade"
              /\ UNCHANGED outcome
    /\ UNCHANGED <<envCI, envTOKEN, ON_CI, loadEnv, task, log, runs>>

publish_upgrade_SkipDeps ==
    /\ pc = "publish_upgrade"
    /\ Invoke(UpgradeInstaller, PublishBranch)
    /\ Frame

publish_upgrade ==
    /\ pc = "publish_upgrade"
    /\ Invoke(UpgradeInstaller, "publish_deps")
    /\ Frame

publish_deps ==
    /\ pc = "publish_deps"
    /\ Invoke(InstallDocsDeps, PublishBranch)
    /\ Frame

publish_remote_add ==
    /\ pc = "publish_remote_add"
    /\ Invoke(GitRemoteAdd(token.val), "publish_fetch")
    /\ Frame

publish_fetch ==
    /\ pc = "publish_fetch"
    /\ Invoke(GitFetch, "publish_fetch_branch")
    /\ Frame

publish_fetch_branch ==
    /\ pc = "publish_fetch_branch"
    /\ Invoke(GitFetchBranch, "publish_deploy_ci")
    /\ Frame

publish_deploy_ci ==
    /\ pc = "publish_deploy_ci"
    /\ Invoke(DeployCI, "done")
    /\ Frame

publish_deploy_local ==
    /\ pc = "publish_deploy_local"
    /\ Invoke(DeployLocal, "done")
    /\ Frame

\* the session function has returned or raised: its frame is gone, nox has
\* taken the result and is free to start the next session
session_end ==
    /\ pc = "done"
    /\ pc' = "idle"
    /\ task' = "none"
    /\ token' = Unset
    /\ log' = <<>>
    /\ outcome' = "none"
    /\ UNCHANGED <<envCI, envTOKEN, ON_CI, loadEnv, runs>>

(* --------------------------- specifications ----------------------------- *)

Step ==
    \/ build_upgrade
    \/ build_deps
    \/ build_run
    \/ serve_upgrade
    \/ serve_deps
    \/ serve_open
    \/ serve_run
    \/ publish_check
    \/ publish_upgrade
    \/ publish_deps
    \/ publish_remote_add
    \/ publish_fetch
    \/ publish_fetch_branch
    \/ publish_deploy_ci
    \/ publish_deploy_local
    \/ session_end

Next ==
    \/ SetEnv
    \/ Start
    \/ Step
    \/ serve_return

Spec == Init /\ [][Next]_vars

\* A session body that is not blocked in mkdocs serve goes on to its next
\* statement: the script is sequential and every other call returns.
FairSpec == Spec /\ WF_vars(Step)

(* ------------------------- reading the call log ------------------------- *)

Idx == 1..Len(log)

IsInstall(i) == log[i].kind = "install"

IsRun(i) == log[i].kind = "run"

IsBrowser(i) == log[i].kind = "browser"

IsGit(i) == IsRun(i) /\ log[i].args[1] = "git"

IsMkdocs(i) == IsRun(i) /\ log[i].args[1] = "mkdocs"

IsDeploy(i) == IsMkdocs(i) /\ log[i].args[2] = "gh-deploy"

HasArg(i, a) == \E k \in 1..Len(log[i].args) : log[i].args[k] = a

InstallsDone ==
    /\ Len(log) >= 2
    /\ IsInstall(1) /\ log[1].res = "ok"
    /\ IsInstall(2) /\ log[2].res = "ok"

Contains(s, t) == \E i \in 0..(Len(s) - Len(t)) : SubSeq(s, i + 1, i + Len(t)) = t

(* ------------------------------- claims --------------------------------- *)

\* C1: a publish run that finds GITHUB_TOKEN not set ends in the error
\* outcome, and its call log stays empty: no installer call, no git command
\* and no mkdocs command, with ON_CI true or false.
C1_NoTokenNoSideEffect ==
    (task = "publish" /\ pc # "publish_check" /\ ~envTOKEN.set)
        => (pc = "done" /\ outcome = "error" /\ log = <<>>)

C1_Witness ==
    /\ task = "publish" /\ pc = "done" /\ ~envTOKEN.set
    /\ outcome = "error" /\ ON_CI

\* C2: in a publish run with a credential and ON_CI set, the calls after the
\* two installer calls are git remote add gh-token <url>, git fetch gh-token,
\* git fetch gh-token gh-pages:gh-pages and mkdocs gh-deploy -v --clean
\* --remote-name gh-token, in that order (all four once the run succeeds),
\* and <url> contains the value GITHUB_TOKEN has in the environment.
C2_Expected ==
    << <<"git", "remote", "add", "gh-token">>,
       <<"git", "fetch", "gh-token">>,
       <<"git", "fetch", "gh-token", "gh-pages:gh-pages">>,
       <<"mkdocs", "gh-deploy", "-v", "--clean", "--remote-name", "gh-token">> >>

C2_CIPublishSequence ==
    (task = "publish" /\ ON_CI /\ Truthy(envTOKEN)) =>
        /\ Len(log) <= 6
        /\ \A i \in Idx : i >= 3 => IsRun(i)
        /\ \A i \in Idx : i >= 4 => log[i].args = C2_Expected[i - 2]
        /\ Len(log) >= 3 =>
              /\ Len(log[3].args) = 5
              /\ SubSeq(log[3].args, 1, 4) = C2_Expected[1]
              /\ Contains(log[3].args[5], envTOKEN.val)
              /\ log[3].args[5] =
                    "https://" \o envTOKEN.val \o "@github.com/FollowTheProcess/spok.git"
        /\ outcome = "success" => Len(log) = 6

C2_Witness ==
    /\ task = "publish" /\ ON_CI /\ outcome = "success"
    /\ Len(log) = 6 /\ envTOKEN.val = "x"

\* C3 as stated: every finished publish run with a credential and ON_CI
\* unset has invoked exactly one mkdocs gh-deploy, without a remote name,
\* and no git command.
C3_Original ==
    (task = "publish" /\ ~ON_CI /\ Truthy(envTOKEN) /\ pc = "done") =>
        /\ Cardinality({i \in Idx : IsDeploy(i)}) = 1
        /\ \A i \in Idx : IsDeploy(i) => ~HasArg(i, "--remote-name")
        /\ \A i \in Idx : ~IsGit(i)

\* C3 amended: with a credential and ON_CI unset, publish invokes no git
\* command and no deploy command that carries a remote name, never more than
\* one deploy command, and exactly one (mkdocs gh-deploy alone) once both
\* installer steps have succeeded and the run is finished.
C3_LocalPublish ==
    (task = "publish" /\ ~ON_CI /\ Truthy(envTOKEN)) =>
        /\ \A i \in Idx : ~IsGit(i)
        /\ \A i \in Idx : IsDeploy(i) =>
              /\ ~HasArg(i, "--remote-name")
              /\ log[i].args = <<"mkdocs", "gh-deploy">>
        /\ Cardinality({i \in Idx : IsDeploy(i)}) <= 1
        /\ (pc = "done" /\ InstallsDone) =>
              Cardinality({i \in Idx : IsDeploy(i)}) = 1
        /\ (pc = "done" /\ ~InstallsDone) =>
              Cardinality({i \in Idx : IsDeploy(i)}) = 0

C3_Witness ==
    /\ task = "publish" /\ ~ON_CI /\ Truthy(envTOKEN) /\ pc = "done"
    /\ Len(log) = 3 /\ IsDeploy(3)

\* C4: in serve, mkdocs serve is never issued without an earlier browser
\* open of http://127.0.0.1:8000/spok/, no browser open follows it, and every
\* browser open of every run has that URL.
C4_BrowserBeforeServe ==
    /\ \A i \in Idx : IsBrowser(i) =>
          (task = "serve" /\ log[i].args = <<"http://127.0.0.1:8000/spok/">>)
    /\ \A i \in Idx : (IsMkdocs(i) /\ log[i].args[2] = "serve") =>
          /\ \E j \in 1..(i - 1) : IsBrowser(j)
          /\ \A k \in (i + 1)..Len(log) : ~IsBrowser(k)
    /\ (task = "serve" /\ pc \in {"serve_run", "serve_blocked"}) =>
          \E j \in Idx : IsBrowser(j)
    /\ (task = "serve" /\ pc = "serve_blocked") =>
          (IsMkdocs(Len(log)) /\ log[Len(log)].res = "running")

C4_Witness ==
    /\ task = "serve" /\ pc = "serve_blocked"
    /\ \E i \in Idx : IsMkdocs(i) /\ log[i].args[2] = "serve"

NoRepeat ==
    \A i, j \in Idx :
        i # j => <<log[i].kind, log[i].args>> # <<log[j].kind, log[j].args>>

\* C5 as stated: no step follows a failed step, no step is invoked twice,
\* and a run in which a step failed does not end in success.
C5_Original ==
    /\ \A i \in Idx : log[i].res = "fail" => i = Len(log)
    /\ NoRepeat
    /\ (\E i \in Idx : log[i].res = "fail") => outcome # "success"

\* C5 amended: no step follows a failed installer step or a failed command,
\* no step is invoked twice, and a run in which an installer step or a
\* command failed ends as failed, never as success.  A browser open that
\* fails in serve is not such a failure: mkdocs serve is still invoked.
C5_AbortOnFailure ==
    /\ \A i \in Idx : (log[i].res = "fail" /\ ~IsBrowser(i)) => i = Len(log)
    /\ NoRepeat
    /\ (\E i \in Idx : log[i].res = "fail" /\ ~IsBrowser(i)) =>
          (pc = "done" /\ outcome = "failed")
    /\ outcome = "failed" => (Len(log) > 0 /\ log[Len(log)].res = "fail")
    /\ (task = "serve" /\ pc = "serve_run") => IsBrowser(Len(log))

C5_Witness ==
    /\ task = "publish" /\ pc = "done" /\ outcome = "failed"
    /\ Len(log) = 4 /\ log[4].res = "fail"

\* C6: whenever a mkdocs or git command has been invoked, the installer
\* upgrade and then the docs-dependency install were invoked before it and
\* both completed.
C6_InstallFirst ==
    \A i \in Idx : (IsMkdocs(i) \/ IsGit(i)) =>
        /\ i > 2
        /\ InstallsDone
        /\ log[1].args = <<"--upgrade", "pip", "setuptools", "wheel">>
        /\ log[2].args =
              <<"mkdocs", "mkdocs-material", "mkdocs-include-markdown-plugin">>

C6_Witness ==
    /\ task = "publish" /\ Len(log) >= 3 /\ IsGit(3)

\* C7: in every task, the installer call that is not the pip/setuptools/wheel
\* upgrade gets mkdocs, mkdocs-material, mkdocs-include-markdown-plugin, in
\* this order; it is the second call of the run, and no run makes another
\* installer call.
C7_SameDeps ==
    /\ \A i \in Idx : IsInstall(i) =>
          /\ i <= 2
          /\ i = 1 => log[i].args = <<"--upgrade", "pip", "setuptools", "wheel">>
          /\ i = 2 => log[i].args =
                <<"mkdocs", "mkdocs-material", "mkdocs-include-markdown-plugin">>
    /\ Len(log) >= 2 => IsInstall(2)

C7_Witness ==
    /\ runs = 2 /\ task = "serve" /\ Len(log) >= 2 /\ IsInstall(2)

C8_Builds == {i \in Idx : IsMkdocs(i) /\ log[i].args[2] = "build"}

\* C8 as stated: every finished build run has invoked mkdocs build --clean
\* exactly once, and nothing else of mkdocs, and no browser open.
C8_Original ==
    (task = "build" /\ pc = "done") =>
        /\ Cardinality(C8_Builds) = 1
        /\ \A i \in C8_Builds : log[i].args = <<"mkdocs", "build", "--clean">>
        /\ \A i \in Idx : ~IsBrowser(i) /\ (IsMkdocs(i) => i \in C8_Builds)

C8_Safe ==
    task = "build" =>
        /\ \A i \in Idx : ~IsBrowser(i) /\ ~IsGit(i) /\ (IsMkdocs(i) => i \in C8_Builds)
        /\ \A i \in C8_Builds :
              log[i].args = <<"mkdocs", "build", "--clean">> /\ pc = "done"
        /\ Cardinality(C8_Builds) <= 1
        /\ (pc = "done" /\ InstallsDone) => Cardinality(C8_Builds) = 1
        /\ (pc = "done" /\ ~InstallsDone) => Cardinality(C8_Builds) = 0
        /\ pc # "serve_blocked"

\* C8 amended: build never opens the browser and never invokes mkdocs serve
\* or gh-deploy; it invokes mkdocs build --clean at most once, exactly once
\* when both installer steps succeeded, and is finished as soon as that
\* command has returned; every build run reaches the finished state.
C8_BuildTerminates ==
    /\ []C8_Safe
    /\ (task = "build") ~> (task = "build" /\ pc = "done")

C8_Witness ==
    /\ task = "build" /\ pc = "done" /\ outcome = "success"
    /\ Cardinality(C8_Builds) = 1

\* C9: ON_CI keeps the truth value the CI variable had at load time; the
\* branch publish takes is the CI branch exactly when that load-time value was
\* a non-empty string, whatever CI is now; and the precondition fails exactly
\* when GITHUB_TOKEN, as it is when publish runs, is unset or empty.
C9_LoadTimeFlagRunTimeToken ==
    /\ ON_CI = (loadEnv.CI.set /\ loadEnv.CI.val # "")
    /\ (task = "publish" /\ Len(log) >= 3) =>
          /\ IsGit(3) <=> (loadEnv.CI.set /\ loadEnv.CI.val # "")
          /\ IsDeploy(3) <=> ~(loadEnv.CI.set /\ loadEnv.CI.val # "")
    /\ (task = "publish" /\ pc # "publish_check") =>
          /\ outcome = "error" <=> ~(envTOKEN.set /\ envTOKEN.val # "")
          /\ token = envTOKEN

C9_Witness ==
    /\ task = "publish" /\ outcome = "success"
    /\ loadEnv.CI = Some("true") /\ envCI = Unset
    /\ loadEnv.TOKEN = Unset /\ envTOKEN = Some("y")
    /\ Len(log) = 6 /\ IsGit(3)

\* C10: a publish run that finds GITHUB_TOKEN set to the empty string ends
\* exactly as one that finds it unset (error outcome, empty call log); a run
\* that got past the check has a non-empty GITHUB_TOKEN, and the URL of git
\* remote add has a non-empty credential between "https://" and "@".
C10_EmptyTokenIsMissing ==
    /\ (task = "publish" /\ pc # "publish_check" /\ envTOKEN = Some("")) =>
          (pc = "done" /\ outcome = "error" /\ log = <<>> /\ token.val = "")
    /\ (task = "publish" /\ pc # "publish_check" /\ outcome # "error") =>
          (envTOKEN.set /\ Len(envTOKEN.val) > 0)
    /\ \A i \in Idx : (IsGit(i) /\ log[i].args[2] = "remote") =>
          /\ log[i].args[5] # "https://@github.com/FollowTheProcess/spok.git"
          /\ Len(log[i].args[5]) >
                Len("https://@github.com/FollowTheProcess/spok.git")

C10_Witness ==
    /\ task = "publish" /\ pc = "done" /\ envTOKEN = Some("")
    /\ outcome = "error" /\ log = <<>>

====
